---- MODULE Spec2Model ----
(***************************************************************************)
(* Model of the interior-design backend: the Design generation job of      *)
(* DesignService (generateDesign / processDesignGeneration), the          *)
(* ownership checks of DesignService, RoomService and UploadService, and   *)
(* the relational store they work on (projects, rooms, designs, uploads).  *)
(***************************************************************************)
EXTENDS Integers, Sequences, FiniteSets, TLC

\* ------------------------------------------------------------------ bounds
\* number of Design ids the store hands out in one run
MaxDesigns == 2
\* number of Upload ids the store hands out in one run
MaxUploads == 2
\* config.rateLimit.aiMaxRequests: requests the AI limiter admits per window
AiMaxRequests == 1

\* ------------------------------------------------------------------ values
NULL == "null"

Users == {"userA", "userB"}
ProjectIds == {"pA", "pB"}
RoomIds == {"rA", "rB"}
DesignIds == 1..MaxDesigns
UploadIds == 1..MaxUploads

\* DesignStatus enum
PENDING == "PENDING"
PROCESSING == "PROCESSING"
COMPLETED == "COMPLETED"
FAILED == "FAILED"

\* a null processingTime column
NullTime == -1
\* a null metadata column (no keys)
NullMetadata == [k \in {} |-> <<>>]

AiProviders == {"replicate", "openai"}
\* customPrompt of a request: absent, or a non-empty string (Joi rejects "")
CustomPrompts == {NULL, "draft"}
\* Date.now() - startTime, in milliseconds
Elapsed == {7}

\* what the provider adapter resolves with
AiResults ==
  { [imageUrls |-> <<"u1">>, prompt |-> "p", metadata |-> [k \in {"m"} |-> <<"1">>]],
    [imageUrls |-> <<"u1", "u2">>, prompt |-> "p",
     metadata |-> [k \in {"m", "allImageUrls"} |-> <<"1">>]] }

\* what the provider adapter rejects with: an Error (possibly with an empty
\* message) or a thrown value that is no Error
Thrown ==
  { [isError |-> TRUE, message |-> "boom"],
    [isError |-> TRUE, message |-> ""],
    [isError |-> FALSE, message |-> NULL] }

\* the errors Prisma rejects a write with
RecordNotFound == [isError |-> TRUE, message |-> "P2025"]
StoreDown == [isError |-> TRUE, message |-> "db"]

NoError == [isError |-> FALSE, message |-> NULL]
NoResult == [imageUrls |-> <<>>, prompt |-> NULL, metadata |-> NullMetadata]
\* nothing has been passed to the provider
NoPromptData == [roomType |-> NULL, style |-> NULL, customPrompt |-> NULL,
                 provider |-> NULL, inputImageUrl |-> NULL]

\* ------------------------------------------------------------------ state
VARIABLES
  projects,      \* store: project id -> row
  rooms,         \* store: room id -> row
  designs,       \* store: design id -> row
  uploads,       \* store: upload id -> row
  nextDesignId,  \* ids handed out so far + 1 (ids are never reused)
  nextUploadId,
  tasks,         \* design id -> the detached processDesignGeneration run
  call,          \* the generateDesign / regenerateDesign call in flight
  resp,          \* the response produced by the last step, if any
  providerCalls, \* design id -> number of provider invocations
  aiHits,        \* requests the AI rate limiter has counted in its window
  images         \* the uploads whose image Cloudinary stores

vars == <<projects, rooms, designs, uploads, nextDesignId, nextUploadId,
          tasks, call, resp, providerCalls, aiHits, images>>

\* JavaScript truthiness of a string-or-undefined value, and a || b
Truthy(x) == x \notin {NULL, ""}
Or(a, b) == IF Truthy(a) THEN a ELSE b

\* the owning user a room resolves to (room.project.userId)
RoomOwner(r) == projects[rooms[r].projectId].userId
\* design.room.project.userId
DesignOwner(d) == RoomOwner(designs[d].roomId)

\* the room row with its project, as findUnique({include: {project}}) returns it
RoomWithProject(r) ==
  [id |-> r, type |-> rooms[r].type,
   originalImageUrl |-> rooms[r].originalImageUrl,
   project |-> [userId |-> projects[rooms[r].projectId].userId,
                style |-> projects[rooms[r].projectId].style]]

NoRoom == [id |-> NULL, type |-> NULL, originalImageUrl |-> NULL,
           project |-> [userId |-> NULL, style |-> NULL]]
NoDesign == [id |-> 0, roomId |-> NULL, imageUrl |-> NULL, prompt |-> NULL,
             aiProvider |-> NULL, status |-> NULL, metadata |-> NullMetadata,
             processingTime |-> NullTime, error |-> NULL]

\* no generateDesign / regenerateDesign call in flight
Idle == [pc |-> "idle", op |-> NULL, userId |-> NULL, roomId |-> NULL,
         customPrompt |-> NULL, aiProvider |-> NULL, room |-> NoRoom,
         design |-> NoDesign, orig |-> 0,
         options |-> [customPrompt |-> NULL, aiProvider |-> NULL]]
\* the last step produced no response
NoResp == [op |-> NULL, userId |-> NULL, roomId |-> NULL, designId |-> 0,
           uploadId |-> 0, code |-> NULL, designs |-> {}, rooms |-> {},
           projects |-> {}, uploads |-> {}]

\* the response to a call of op by user u: an error code or "OK"
Respond(op, u, code) == [NoResp EXCEPT !.op = op, !.userId = u, !.code = code]

Init ==
  /\ projects = [p \in ProjectIds |->
                   [userId |-> IF p = "pA" THEN "userA" ELSE "userB",
                    style |-> "SCANDINAVIAN"]]
  /\ rooms = [r \in {"rA"} |->
                [projectId |-> "pA", type |-> "BEDROOM",
                 originalImageUrl |-> NULL]]
  /\ designs = [d \in {} |-> NULL]
  /\ uploads = [u \in {} |-> NULL]
  /\ nextDesignId = 1
  /\ nextUploadId = 1
  /\ tasks = [d \in {} |-> NULL]
  /\ call = Idle
  /\ resp = NoResp
  /\ providerCalls = [d \in DesignIds |-> 0]
  /\ aiHits = 0
  /\ images = {}

\* ------------------------------------------------------------- the store
\* prisma.<model>.create / delete on the id-indexed tables
Put(f, k, v) == [x \in DOMAIN f \cup {k} |-> IF x = k THEN v ELSE f[x]]
Remove(f, S) == [x \in DOMAIN f \ S |-> f[x]]

\* prisma.design.update({where: {id}, data: patch}): the columns named in
\* the patch are overwritten, every other column keeps its value
ApplyPatch(row, patch) ==
  [f \in DOMAIN row |-> IF f \in DOMAIN patch THEN patch[f] ELSE row[f]]

\* how an update of design d issued by a generation task can end: applied,
\* rejected because the row is gone, or rejected by a store failure
WriteOutcomes(d) ==
  (IF d \in DOMAIN designs THEN {"ok"} ELSE {"P2025"}) \cup {"db"}

WriteError(o) == IF o = "P2025" THEN RecordNotFound ELSE StoreDown

\* ------------------------------------------------- DesignService (job)
NewDesignEmptyPrompt(id, roomId, customPrompt, aiProvider) ==
  [id |-> id, roomId |-> roomId, imageUrl |-> "", prompt |-> "",
   aiProvider |-> aiProvider, status |-> PENDING,
   metadata |-> NullMetadata, processingTime |-> NullTime, error |-> NULL]
\* the row prisma.design.create inserts for a generation request
NewDesign(id, roomId, customPrompt, aiProvider) ==
  [id |-> id, roomId |-> roomId, imageUrl |-> "",
   prompt |-> Or(customPrompt, ""), aiProvider |-> aiProvider,
   status |-> PENDING, metadata |-> NullMetadata,
   processingTime |-> NullTime, error |-> NULL]

formatDesignResponseOfStoredRow(design) ==
  IF design.id \in DOMAIN designs THEN designs[design.id] ELSE design
\* formatDesignResponse: the fields of the design object it is given
formatDesignResponse(design) ==
  [id |-> design.id, roomId |-> design.roomId, imageUrl |-> design.imageUrl,
   prompt |-> design.prompt, aiProvider |-> design.aiProvider,
   status |-> design.status, processingTime |-> design.processingTime,
   error |-> design.error, metadata |-> design.metadata]

\* a freshly spawned processDesignGeneration: its first update is issued
NewTask(room, customPrompt, aiProvider) ==
  [pc |-> "setProcessing", room |-> room, customPrompt |-> customPrompt,
   aiProvider |-> aiProvider, promptData |-> NoPromptData,
   aiResult |-> NoResult, error |-> NoError]

ReusedDesignId == IF call.orig # 0 THEN call.orig ELSE nextDesignId
\* the id the store gives the inserted row: one no row has had before
NewDesignId == nextDesignId

RoomGateWithoutOwnerCheck(u, r) ==
  IF r \notin DOMAIN rooms THEN "ROOM_NOT_FOUND" ELSE "OK"
\* the outcome of the room query and of the ownership check that follows it
RoomGate(u, r) ==
  IF r \notin DOMAIN rooms THEN "ROOM_NOT_FOUND"
  ELSE IF RoomOwner(r) # u THEN "ACCESS_DENIED"
  ELSE "OK"

\* generateDesign, lines 22-49, run for the call c: the room is read with
\* its project and checked; the insert is issued when the check passes
FindRoom(c) ==
  LET gate == RoomGate(c.userId, c.roomId) IN
    IF gate = "OK"
    THEN /\ call' = [c EXCEPT !.pc = "create",
                              !.room = RoomWithProject(c.roomId)]
         /\ resp' = NoResp
    ELSE /\ call' = Idle
         /\ resp' = [Respond(c.op, c.userId, gate) EXCEPT
                       !.roomId = c.roomId]

\* generateDesign is called with a DTO (aiProvider defaults to "replicate"):
\* what the call does to the store and to the calls in flight
generateDesignCall(u, r, cp, prov) ==
  /\ call.pc = "idle"
  /\ nextDesignId <= MaxDesigns
  /\ FindRoom([Idle EXCEPT !.op = "generateDesign", !.userId = u,
                           !.roomId = r, !.customPrompt = cp,
                           !.aiProvider = Or(prov, "replicate")])
  /\ UNCHANGED <<projects, rooms, designs, uploads, nextDesignId,
                 nextUploadId, tasks, providerCalls, images>>

\* generateDesign called directly: the service knows no rate limiter
generateDesign(u, r, cp, prov) ==
  /\ generateDesignCall(u, r, cp, prov)
  /\ UNCHANGED aiHits

\* generateDesign as entered from regenerateDesign: its room query answers
GenerateDesignFindRoom ==
  /\ call.pc = "findRoom"
  /\ FindRoom(call)
  /\ UNCHANGED <<projects, rooms, designs, uploads, nextDesignId,
                 nextUploadId, tasks, providerCalls,
                 aiHits, images>>

\* generateDesign, lines 51-85: the insert answers; on success the detached
\* task is spawned and runs up to its first await. The insert is rejected
\* (foreign key) when the room was deleted after the check.
GenerateDesignCreate ==
  /\ call.pc = "create"
  /\ IF call.roomId \in DOMAIN rooms
     THEN LET design == NewDesign(NewDesignId, call.roomId,
                                  call.customPrompt, call.aiProvider) IN
          /\ designs' = Put(designs, NewDesignId, design)
          /\ nextDesignId' = nextDesignId + 1
          /\ tasks' = Put(tasks, NewDesignId,
                          NewTask(call.room, call.customPrompt,
                                  call.aiProvider))
          /\ call' = [call EXCEPT !.pc = "return", !.design = design]
          /\ resp' = NoResp
     ELSE /\ call' = Idle
          /\ resp' = [Respond(call.op, call.userId,
                              "DESIGN_GENERATION_ERROR") EXCEPT
                        !.roomId = call.roomId]
          /\ UNCHANGED <<designs, nextDesignId, tasks>>
  /\ UNCHANGED <<projects, rooms, uploads, nextUploadId,
                 providerCalls,
                 aiHits, images>>

GenerateDesignReturnStoringImage ==
  /\ call.pc = "return"
  /\ resp' = [Respond(call.op, call.userId, "OK") EXCEPT
                !.roomId = call.roomId,
                !.designs = {formatDesignResponse(call.design)}]
  /\ call' = Idle
  /\ rooms' = [r \in DOMAIN rooms |->
                 IF r = call.roomId
                 THEN [rooms[r] EXCEPT !.originalImageUrl = "generated"]
                 ELSE rooms[r]]
  /\ UNCHANGED <<projects, designs, uploads, nextDesignId,
                 nextUploadId, tasks, providerCalls,
                 aiHits, images>>
\* generateDesign, line 94: the caller receives the formatted local object
GenerateDesignReturn ==
  /\ call.pc = "return"
  /\ resp' = [Respond(call.op, call.userId, "OK") EXCEPT
                !.roomId = call.roomId,
                !.designs = {formatDesignResponse(call.design)}]
  /\ call' = Idle
  /\ UNCHANGED <<projects, rooms, designs, uploads, nextDesignId,
                 nextUploadId, tasks, providerCalls,
                 aiHits, images>>

\* ------------------------------------ processDesignGeneration (detached)
ProcessingPatchKeepsStatus == [status |-> PENDING]
ProcessingPatchStampingTime == [status |-> PROCESSING, processingTime |-> 0]
\* data of the update at lines 123-126
ProcessingPatch == [status |-> PROCESSING]

\* {...aiResult.metadata, allImageUrls: aiResult.imageUrls}
WithAllImageUrls(metadata, imageUrls) ==
  [k \in DOMAIN metadata \cup {"allImageUrls"} |->
     IF k = "allImageUrls" THEN imageUrls ELSE metadata[k]]

CompletedPatchWithoutStatus(aiResult, processingTime) ==
  [imageUrl |-> aiResult.imageUrls[1], prompt |-> aiResult.prompt,
   processingTime |-> processingTime,
   metadata |-> WithAllImageUrls(aiResult.metadata, aiResult.imageUrls)]
CompletedPatchKeepsPrompt(aiResult, processingTime) ==
  [imageUrl |-> aiResult.imageUrls[1], status |-> COMPLETED,
   processingTime |-> processingTime,
   metadata |-> WithAllImageUrls(aiResult.metadata, aiResult.imageUrls)]
\* data of the update at lines 151-163
CompletedPatch(aiResult, processingTime) ==
  [imageUrl |-> aiResult.imageUrls[1], prompt |-> aiResult.prompt,
   status |-> COMPLETED, processingTime |-> processingTime,
   metadata |-> WithAllImageUrls(aiResult.metadata, aiResult.imageUrls)]

FailedPatchWithoutFallback(error, processingTime) ==
  [status |-> FAILED, processingTime |-> processingTime,
   error |-> error.message]
\* data of the update at lines 177-184
FailedPatch(error, processingTime) ==
  [status |-> FAILED, processingTime |-> processingTime,
   error |-> IF error.isError THEN error.message ELSE "Unknown error"]

\* data of the update in the .catch of generateDesign, lines 71-78
DispatchFailedPatch(error) ==
  [status |-> FAILED, error |-> Or(error.message, "Design generation failed")]

AfterProcessingWriteIgnoresFailure(o) == "awaitProvider"
\* where the task continues after its PROCESSING update: at the provider
\* call, or in the catch block when the update was rejected
AfterProcessingWrite(o) == IF o = "ok" THEN "awaitProvider" ELSE "writeFailed"
AfterCompletedWriteFallsIntoCatch(o) == "writeFailed"
\* where the task continues after its COMPLETED update: the end of the try
\* block, or the catch block when the update was rejected
AfterCompletedWrite(o) == IF o = "ok" THEN "done" ELSE "writeFailed"
AfterFailedWriteRestarts(o) == IF o = "ok" THEN "done" ELSE "setProcessing"
\* after the FAILED update of the catch block: the promise resolves, or it
\* rejects into the .catch handler of generateDesign
AfterFailedWrite(o) == IF o = "ok" THEN "done" ELSE "dispatchCatch"

AfterDispatchWriteRethrows(o) == IF o = "P2025" THEN "unhandled" ELSE "done"
AfterDispatchWriteUnhandled(o) == IF o = "ok" THEN "done" ELSE "unhandled"
AfterDispatchWriteRetries(o) == IF o = "ok" THEN "done" ELSE "dispatchCatch"
\* after the update of the .catch handler of generateDesign (lines 71-84):
\* a rejection of that update is caught and logged, so the chain settles
\* either way. "unhandled" stands for a rejection nobody catches, which the
\* process-level handler answers by exiting.
AfterDispatchWrite(o) == "done"

PromptDataFromStore(t) ==
  [roomType |-> rooms[t.room.id].type,
   style |-> projects[rooms[t.room.id].projectId].style,
   customPrompt |-> t.customPrompt, provider |-> t.aiProvider,
   inputImageUrl |-> rooms[t.room.id].originalImageUrl]
\* lines 129-146: the prompt data built from the task's arguments, with the
\* provider and the source image passed along with it
PromptData(t) ==
  [roomType |-> t.room.type, style |-> t.room.project.style,
   customPrompt |-> t.customPrompt, provider |-> t.aiProvider,
   inputImageUrl |-> t.room.originalImageUrl]

\* a task that has run to its end holds nothing any more
Finished == [pc |-> "done", room |-> NoRoom, customPrompt |-> NULL,
             aiProvider |-> NULL, promptData |-> NoPromptData,
             aiResult |-> NoResult, error |-> NoError]

\* the task t at its end: what stays on record is the custom prompt its
\* request carried
Ended(t) == [Finished EXCEPT !.customPrompt = t.customPrompt]

\* lines 121-146: the PROCESSING update answers; on success the prompt data
\* is built and the provider is called, on rejection the catch block runs
TaskSetProcessing(d) ==
  /\ d \in DOMAIN tasks
  /\ tasks[d].pc = "setProcessing"
  /\ \E o \in WriteOutcomes(d) :
       /\ designs' = IF o = "ok"
                     THEN [designs EXCEPT
                             ![d] = ApplyPatch(@, ProcessingPatch)]
                     ELSE designs
       /\ IF AfterProcessingWrite(o) = "awaitProvider"
          THEN /\ tasks' = [tasks EXCEPT
                              ![d].pc = "awaitProvider",
                              ![d].promptData = PromptData(tasks[d])]
               /\ providerCalls' = [providerCalls EXCEPT ![d] = @ + 1]
          ELSE /\ tasks' = [tasks EXCEPT ![d].pc = "writeFailed",
                                         ![d].error = WriteError(o)]
               /\ UNCHANGED providerCalls
  /\ resp' = NoResp
  /\ UNCHANGED <<projects, rooms, uploads, nextDesignId, nextUploadId, call,
                 aiHits, images>>

\* lines 143-163: aiService.generateDesign resolves with res; the COMPLETED
\* update is issued
ProviderResolves(d, res) ==
  /\ d \in DOMAIN tasks
  /\ tasks[d].pc = "awaitProvider"
  /\ tasks' = [tasks EXCEPT ![d].pc = "writeCompleted", ![d].aiResult = res]
  /\ resp' = NoResp
  /\ UNCHANGED <<projects, rooms, designs, uploads, nextDesignId,
                 nextUploadId, call, providerCalls,
                 aiHits, images>>

\* lines 143-146, 171-184: aiService.generateDesign rejects with err; the
\* FAILED update of the catch block is issued
ProviderRejects(d, err) ==
  /\ d \in DOMAIN tasks
  /\ tasks[d].pc = "awaitProvider"
  /\ tasks' = [tasks EXCEPT ![d].pc = "writeFailed", ![d].error = err]
  /\ resp' = NoResp
  /\ UNCHANGED <<projects, rooms, designs, uploads, nextDesignId,
                 nextUploadId, call, providerCalls,
                 aiHits, images>>

\* lines 148-170: the COMPLETED update, carrying the elapsed time e taken
\* before it was issued, answers
TaskWriteCompleted(d, e) ==
  /\ d \in DOMAIN tasks
  /\ tasks[d].pc = "writeCompleted"
  /\ \E o \in WriteOutcomes(d) :
       IF o = "ok"
       THEN /\ designs' = [designs EXCEPT
                             ![d] = ApplyPatch(@,
                                      CompletedPatch(tasks[d].aiResult, e))]
            /\ tasks' = [tasks EXCEPT
                           ![d] = [Ended(tasks[d]) EXCEPT
                                     !.pc = AfterCompletedWrite(o)]]
       ELSE /\ tasks' = [tasks EXCEPT ![d].pc = AfterCompletedWrite(o),
                                      ![d].aiResult = NoResult,
                                      ![d].error = WriteError(o)]
            /\ UNCHANGED designs
  /\ resp' = NoResp
  /\ UNCHANGED <<projects, rooms, uploads, nextDesignId, nextUploadId, call,
                 providerCalls,
                 aiHits, images>>

\* lines 171-185: the FAILED update of the catch block, carrying the elapsed
\* time e, answers
TaskWriteFailed(d, e) ==
  /\ d \in DOMAIN tasks
  /\ tasks[d].pc = "writeFailed"
  /\ \E o \in WriteOutcomes(d) :
       IF o = "ok"
       THEN /\ designs' = [designs EXCEPT
                             ![d] = ApplyPatch(@,
                                      FailedPatch(tasks[d].error, e))]
            /\ tasks' = [tasks EXCEPT
                           ![d] = [Ended(tasks[d]) EXCEPT
                                     !.pc = AfterFailedWrite(o)]]
       ELSE /\ tasks' = [tasks EXCEPT ![d].pc = AfterFailedWrite(o),
                                      ![d].error = WriteError(o)]
            /\ UNCHANGED designs
  /\ resp' = NoResp
  /\ UNCHANGED <<projects, rooms, uploads, nextDesignId, nextUploadId, call,
                 providerCalls,
                 aiHits, images>>

\* generateDesign lines 68-85: the .catch handler of the rejected task
\* updates the row; a rejection of that update is only logged
TaskDispatchCatch(d) ==
  /\ d \in DOMAIN tasks
  /\ tasks[d].pc = "dispatchCatch"
  /\ \E o \in WriteOutcomes(d) :
       IF o = "ok"
       THEN /\ designs' = [designs EXCEPT
                             ![d] = ApplyPatch(@,
                                      DispatchFailedPatch(tasks[d].error))]
            /\ tasks' = [tasks EXCEPT
                           ![d] = [Ended(tasks[d]) EXCEPT
                                     !.pc = AfterDispatchWrite(o)]]
       ELSE /\ UNCHANGED designs
            /\ tasks' = [tasks EXCEPT
                           ![d] = [Ended(tasks[d]) EXCEPT
                                     !.pc = AfterDispatchWrite(o)]]
  /\ resp' = NoResp
  /\ UNCHANGED <<projects, rooms, uploads, nextDesignId, nextUploadId, call,
                 providerCalls,
                 aiHits, images>>

\* ------------------------------------------ DesignService (other calls)
DesignGateHidingForeignRows(u, d) ==
  IF d \notin DOMAIN designs THEN "DESIGN_NOT_FOUND"
  ELSE IF DesignOwner(d) # u THEN "DESIGN_NOT_FOUND"
  ELSE "OK"
\* the outcome of findUnique on a design and of the ownership check
DesignGate(u, d) ==
  IF d \notin DOMAIN designs THEN "DESIGN_NOT_FOUND"
  ELSE IF DesignOwner(d) # u THEN "ACCESS_DENIED"
  ELSE "OK"

\* lines 579-585: the request regenerateDesign hands to generateDesign
RegenerateDto(originalDesign, prov, cp) ==
  [roomId |-> originalDesign.roomId,
   customPrompt |-> Or(cp, originalDesign.prompt),
   aiProvider |-> Or(prov, originalDesign.aiProvider)]

regenerateDesignCancellingOriginal(u, d, prov, cp) ==
  /\ call.pc = "idle"
  /\ nextDesignId <= MaxDesigns
  /\ LET gate == DesignGate(u, d) IN
       IF gate = "OK"
       THEN /\ call' = [Idle EXCEPT
                          !.pc = "findRoom", !.op = "regenerateDesign",
                          !.userId = u,
                          !.roomId = RegenerateDto(designs[d], prov, cp).roomId,
                          !.customPrompt =
                             RegenerateDto(designs[d], prov, cp).customPrompt,
                          !.aiProvider =
                             RegenerateDto(designs[d], prov, cp).aiProvider,
                          !.orig = d,
                          !.options = [customPrompt |-> cp,
                                       aiProvider |-> prov]]
            /\ resp' = NoResp
            /\ designs' = IF designs[d].status \in {COMPLETED, FAILED}
                          THEN designs
                          ELSE [designs EXCEPT ![d].status = FAILED,
                                               ![d].error = "superseded"]
       ELSE /\ call' = Idle
            /\ resp' = [Respond("regenerateDesign", u, gate) EXCEPT
                          !.designId = d]
            /\ UNCHANGED designs
  /\ UNCHANGED <<projects, rooms, uploads, nextDesignId,
                 nextUploadId, tasks, providerCalls,
                 aiHits, images>>
\* regenerateDesign, lines 541-585: the original is read and checked, then
\* generateDesign is entered with values taken from it
regenerateDesignCall(u, d, prov, cp) ==
  /\ call.pc = "idle"
  /\ nextDesignId <= MaxDesigns
  /\ LET gate == DesignGate(u, d) IN
       IF gate = "OK"
       THEN /\ call' = [Idle EXCEPT
                          !.pc = "findRoom", !.op = "regenerateDesign",
                          !.userId = u,
                          !.roomId = RegenerateDto(designs[d], prov, cp).roomId,
                          !.customPrompt =
                             RegenerateDto(designs[d], prov, cp).customPrompt,
                          !.aiProvider =
                             RegenerateDto(designs[d], prov, cp).aiProvider,
                          !.orig = d,
                          !.options = [customPrompt |-> cp,
                                       aiProvider |-> prov]]
            /\ resp' = NoResp
       ELSE /\ call' = Idle
            /\ resp' = [Respond("regenerateDesign", u, gate) EXCEPT
                          !.designId = d]
  /\ UNCHANGED <<projects, rooms, designs, uploads, nextDesignId,
                 nextUploadId, tasks, providerCalls, images>>

\* regenerateDesign called directly
regenerateDesign(u, d, prov, cp) ==
  /\ regenerateDesignCall(u, d, prov, cp)
  /\ UNCHANGED aiHits

deleteRoomWithoutCascade(u, r) ==
  /\ LET gate == RoomGate(u, r) IN
       /\ resp' = [Respond("deleteRoom", u, gate) EXCEPT !.roomId = r]
       /\ rooms' = IF gate = "OK" THEN Remove(rooms, {r}) ELSE rooms
  /\ UNCHANGED <<projects, designs, uploads, nextDesignId, nextUploadId,
                 tasks, call, providerCalls,
                 aiHits, images>>

deleteDesignByMarking(u, d) ==
  /\ LET gate == DesignGate(u, d) IN
       /\ resp' = [Respond("deleteDesign", u, gate) EXCEPT !.designId = d]
       /\ designs' = IF gate = "OK"
                     THEN [designs EXCEPT ![d].status = FAILED,
                                          ![d].error = "deleted"]
                     ELSE designs
  /\ UNCHANGED <<projects, rooms, uploads, nextDesignId, nextUploadId, tasks,
                 call, providerCalls,
                 aiHits, images>>
\* deleteDesign, lines 376-423
deleteDesign(u, d) ==
  /\ LET gate == DesignGate(u, d) IN
       /\ resp' = [Respond("deleteDesign", u, gate) EXCEPT !.designId = d]
       /\ designs' = IF gate = "OK" THEN Remove(designs, {d}) ELSE designs
  /\ UNCHANGED <<projects, rooms, uploads, nextDesignId, nextUploadId, tasks,
                 call, providerCalls,
                 aiHits, images>>

\* ------------------------------------------------------------ RoomService
\* ON DELETE CASCADE of designs_roomId_fkey, ON DELETE SET NULL of
\* uploads_roomId_fkey
DesignsOfRooms(R) == {d \in DOMAIN designs : designs[d].roomId \in R}
DetachUploads(R) ==
  [x \in DOMAIN uploads |->
     IF uploads[x].roomId \in R THEN [uploads[x] EXCEPT !.roomId = NULL]
     ELSE uploads[x]]

\* deleteRoom, lines 903-953
deleteRoom(u, r) ==
  /\ LET gate == RoomGate(u, r) IN
       /\ resp' = [Respond("deleteRoom", u, gate) EXCEPT !.roomId = r]
       /\ IF gate = "OK"
          THEN /\ rooms' = Remove(rooms, {r})
               /\ designs' = Remove(designs, DesignsOfRooms({r}))
               /\ uploads' = DetachUploads({r})
          ELSE UNCHANGED <<rooms, designs, uploads>>
  /\ UNCHANGED <<projects, nextDesignId, nextUploadId, tasks, call,
                 providerCalls,
                 aiHits, images>>

\* --------------------------------------------------------- specification
\* the generation job and the calls that can change a Design row; userB
\* owns no room here, so every design belongs to userA. Requests carry a
\* custom prompt and leave the provider to its default.
Next ==
  \/ \E u \in Users, r \in RoomIds : generateDesign(u, r, "draft", NULL)
  \/ GenerateDesignFindRoom
  \/ GenerateDesignCreate
  \/ GenerateDesignReturn
  \/ \E d \in DesignIds : TaskSetProcessing(d)
  \/ \E d \in DesignIds, res \in AiResults : ProviderResolves(d, res)
  \/ \E d \in DesignIds, err \in Thrown : ProviderRejects(d, err)
  \/ \E d \in DesignIds, e \in Elapsed : TaskWriteCompleted(d, e)
  \/ \E d \in DesignIds, e \in Elapsed : TaskWriteFailed(d, e)
  \/ \E d \in DesignIds : TaskDispatchCatch(d)
  \/ \E d \in DesignIds : regenerateDesign("userA", d, NULL, NULL)
  \/ \E d \in DesignIds : deleteDesign("userA", d)
  \/ deleteRoom("userA", "rA")

Spec == Init /\ [][Next]_vars

\* ------------------------------------------ DesignService (read calls)
\* the values a list request can carry for page and limit
Pages == {1, 2}
Limits == {1, 20}

\* the query of a getDesigns request: absent filters are NULL
DesignQueries ==
  [roomId : RoomIds \cup {NULL}, status : {NULL, COMPLETED},
   aiProvider : {NULL, "openai"}, page : Pages, limit : Limits]

\* orderBy createdAt desc, skip, take over the rows S of an id-indexed
\* table: ids are handed out in creation order
PageOf(S, skip, take) ==
  {x \in S : LET newer == Cardinality({y \in S : y > x})
             IN newer >= skip /\ newer < skip + take}

DesignWhereAnyUser(userId, q, d) ==
  /\ Truthy(q.roomId) => designs[d].roomId = q.roomId
  /\ Truthy(q.status) => designs[d].status = q.status
  /\ Truthy(q.aiProvider) => designs[d].aiProvider = q.aiProvider
\* getDesigns, lines 306-324: the where clause applied to the row d
DesignWhere(userId, q, d) ==
  /\ DesignOwner(d) = userId
  /\ Truthy(q.roomId) => designs[d].roomId = q.roomId
  /\ Truthy(q.status) => designs[d].status = q.status
  /\ Truthy(q.aiProvider) => designs[d].aiProvider = q.aiProvider

\* getDesigns, lines 289-371
getDesigns(u, q) ==
  /\ LET matching == {d \in DOMAIN designs : DesignWhere(u, q, d)}
         page == PageOf(matching, (q.page - 1) * q.limit, q.limit)
     IN resp' = [Respond("getDesigns", u, "OK") EXCEPT
                   !.roomId = q.roomId,
                   !.designs = {formatDesignResponse(designs[d]) : d \in page}]
  /\ UNCHANGED <<projects, rooms, designs, uploads, nextDesignId,
                 nextUploadId, tasks, call, providerCalls,
                 aiHits, images>>

\* getDesignById, lines 191-235
getDesignById(u, d) ==
  /\ LET gate == DesignGate(u, d) IN
       resp' = [Respond("getDesignById", u, gate) EXCEPT
                  !.designId = d,
                  !.designs = IF gate = "OK"
                              THEN {formatDesignResponse(designs[d])}
                              ELSE {}]
  /\ UNCHANGED <<projects, rooms, designs, uploads, nextDesignId,
                 nextUploadId, tasks, call, providerCalls,
                 aiHits, images>>

\* getRoomDesigns, lines 240-284
getRoomDesigns(u, r) ==
  /\ LET gate == RoomGate(u, r) IN
       resp' = [Respond("getRoomDesigns", u, gate) EXCEPT
                  !.roomId = r,
                  !.designs = IF gate = "OK"
                              THEN {formatDesignResponse(designs[d]) :
                                      d \in DesignsOfRooms({r})}
                              ELSE {}]
  /\ UNCHANGED <<projects, rooms, designs, uploads, nextDesignId,
                 nextUploadId, tasks, call, providerCalls,
                 aiHits, images>>

\* getDesignStats, lines 428-536: the rows the statistics are computed from
getDesignStats(u) ==
  /\ resp' = [Respond("getDesignStats", u, "OK") EXCEPT
                !.designs = {formatDesignResponse(designs[d]) :
                               d \in {x \in DOMAIN designs :
                                        DesignOwner(x) = u}}]
  /\ UNCHANGED <<projects, rooms, designs, uploads, nextDesignId,
                 nextUploadId, tasks, call, providerCalls,
                 aiHits, images>>

\* ------------------------------------------------ RoomService (read)
\* the room as a response carries it, with the project it belongs to
formatRoomResponse(r) ==
  [id |-> r, type |-> rooms[r].type, projectId |-> rooms[r].projectId]

\* getRoomById, lines 755-807: the room with its designs and uploads
getRoomById(u, r) ==
  /\ LET gate == RoomGate(u, r) IN
       resp' = IF gate = "OK"
               THEN [Respond("getRoomById", u, gate) EXCEPT
                       !.roomId = r,
                       !.rooms = {formatRoomResponse(r)},
                       !.designs = {formatDesignResponse(designs[d]) :
                                      d \in DesignsOfRooms({r})},
                       !.uploads = {uploads[x] :
                                      x \in {y \in DOMAIN uploads :
                                               uploads[y].roomId = r}}]
               ELSE [Respond("getRoomById", u, gate) EXCEPT !.roomId = r]
  /\ UNCHANGED <<projects, rooms, designs, uploads, nextDesignId,
                 nextUploadId, tasks, call, providerCalls,
                 aiHits, images>>

\* ---------------------------------------------- ProjectService (read)
ProjectGate(u, p) ==
  IF p \notin DOMAIN projects THEN "PROJECT_NOT_FOUND"
  ELSE IF projects[p].userId # u THEN "ACCESS_DENIED"
  ELSE "OK"

\* getProjectById: the project with its rooms
getProjectById(u, p) ==
  /\ LET gate == ProjectGate(u, p) IN
       resp' = IF gate = "OK"
               THEN [Respond("getProjectById", u, gate) EXCEPT
                       !.projects = {[id |-> p,
                                      userId |-> projects[p].userId]},
                       !.rooms = {formatRoomResponse(r) :
                                    r \in {x \in DOMAIN rooms :
                                             rooms[x].projectId = p}}]
               ELSE Respond("getProjectById", u, gate)
  /\ UNCHANGED <<projects, rooms, designs, uploads, nextDesignId,
                 nextUploadId, tasks, call, providerCalls,
                 aiHits, images>>

\* ---------------------------------------------------------- UploadService
\* the user an upload's chain resolves to (upload.room?.project?.userId):
\* an upload attached to no room resolves to nobody
UploadOwner(x) ==
  IF uploads[x].roomId = NULL THEN NULL ELSE RoomOwner(uploads[x].roomId)

\* the row prisma.upload.create inserts (lines 40-57)
NewUpload(id, roomId, userId) ==
  [id |-> id, roomId |-> Or(roomId, NULL), uploadedBy |-> userId]

\* uploadRoomImage, lines 13-99: the file is stored at Cloudinary, then the
\* row is inserted under options.roomId; the insert is rejected (foreign
\* key) when roomId names no room, and the stored image stays. The number
\* of the upload identifies its image and, when inserted, its row.
uploadRoomImage(u, roomId) ==
  /\ nextUploadId <= MaxUploads
  /\ images' = images \cup {nextUploadId}
  /\ nextUploadId' = nextUploadId + 1
  /\ IF Truthy(roomId) /\ roomId \notin DOMAIN rooms
     THEN /\ resp' = [Respond("uploadRoomImage", u, "UPLOAD_ERROR") EXCEPT
                        !.roomId = roomId]
          /\ UNCHANGED uploads
     ELSE /\ uploads' = Put(uploads, nextUploadId,
                            NewUpload(nextUploadId, roomId, u))
          /\ resp' = [Respond("uploadRoomImage", u, "OK") EXCEPT
                        !.roomId = roomId, !.uploadId = nextUploadId]
  /\ UNCHANGED <<projects, rooms, designs, nextDesignId, tasks, call,
                 providerCalls, aiHits>>

\* getUploadById, lines 104-151: the upload with its room and the room's
\* project; the controller passes the id only
getUploadById(u, x) ==
  /\ resp' = IF x \notin DOMAIN uploads
             THEN [Respond("getUploadById", u, "UPLOAD_NOT_FOUND") EXCEPT
                     !.uploadId = x]
             ELSE [Respond("getUploadById", u, "OK") EXCEPT
                     !.uploadId = x,
                     !.uploads = {uploads[x]},
                     !.rooms = IF uploads[x].roomId = NULL THEN {}
                               ELSE {formatRoomResponse(uploads[x].roomId)}]
  /\ UNCHANGED <<projects, rooms, designs, uploads, nextDesignId,
                 nextUploadId, tasks, call, providerCalls,
                 aiHits, images>>

\* the outcome of the lookup and ownership check of deleteUpload
\* (lines 159-185)
DeleteUploadGate(u, x) ==
  IF x \notin DOMAIN uploads THEN "UPLOAD_NOT_FOUND"
  ELSE IF UploadOwner(x) # u THEN "ACCESS_DENIED"
  ELSE "OK"

deleteUploadByUploader(u, x) ==
  /\ LET gate == IF x \notin DOMAIN uploads THEN "UPLOAD_NOT_FOUND"
                 ELSE IF uploads[x].uploadedBy # u THEN "ACCESS_DENIED"
                 ELSE "OK" IN
       /\ resp' = [Respond("deleteUpload", u, gate) EXCEPT !.uploadId = x]
       /\ IF gate = "OK"
          THEN /\ images' \in {images \ {x}, images}
               /\ uploads' = Remove(uploads, {x})
          ELSE UNCHANGED <<uploads, images>>
  /\ UNCHANGED <<projects, rooms, designs, nextDesignId, nextUploadId,
                 tasks, call, providerCalls, aiHits>>
\* deleteUpload, lines 156-219: after the checks the image is deleted at
\* Cloudinary, which may fail and is then only logged, and the row is
\* deleted
deleteUpload(u, x) ==
  /\ LET gate == DeleteUploadGate(u, x) IN
       /\ resp' = [Respond("deleteUpload", u, gate) EXCEPT !.uploadId = x]
       /\ IF gate = "OK"
          THEN /\ images' \in {images \ {x}, images}
               /\ uploads' = Remove(uploads, {x})
          ELSE UNCHANGED <<uploads, images>>
  /\ UNCHANGED <<projects, rooms, designs, nextDesignId, nextUploadId,
                 tasks, call, providerCalls, aiHits>>

\* getRoomUploads, lines 224-289
getRoomUploads(u, r) ==
  /\ LET gate == RoomGate(u, r) IN
       resp' = [Respond("getRoomUploads", u, gate) EXCEPT
                  !.roomId = r,
                  !.uploads = IF gate = "OK"
                              THEN {uploads[x] :
                                      x \in {y \in DOMAIN uploads :
                                               uploads[y].roomId = r}}
                              ELSE {}]
  /\ UNCHANGED <<projects, rooms, designs, uploads, nextDesignId,
                 nextUploadId, tasks, call, providerCalls,
                 aiHits, images>>

\* the outcome of the checks of updateUploadRoom (lines 301-351): the
\* current room is checked only when the upload has one
UpdateUploadRoomGate(x, r, u) ==
  IF x \notin DOMAIN uploads THEN "UPLOAD_NOT_FOUND"
  ELSE IF uploads[x].roomId # NULL /\ UploadOwner(x) # u
       THEN "ACCESS_DENIED"
  ELSE RoomGate(u, r)

\* updateUploadRoom, lines 294-391
updateUploadRoom(x, r, u) ==
  /\ LET gate == UpdateUploadRoomGate(x, r, u) IN
       /\ resp' = [Respond("updateUploadRoom", u, gate) EXCEPT
                     !.uploadId = x, !.roomId = r]
       /\ uploads' = IF gate = "OK"
                     THEN [uploads EXCEPT ![x].roomId = r]
                     ELSE uploads
  /\ UNCHANGED <<projects, rooms, designs, nextDesignId, nextUploadId,
                 tasks, call, providerCalls,
                 aiHits, images>>

\* getUserUploads, lines 416-427: the where clause applied to the row x
UploadWhere(userId, roomId, x) ==
  /\ UploadOwner(x) = userId
  /\ Truthy(roomId) => uploads[x].roomId = roomId

\* getUserUploads, lines 396-496
getUserUploads(u, roomId, page, limit) ==
  /\ LET matching == {x \in DOMAIN uploads : UploadWhere(u, roomId, x)}
         shown == PageOf(matching, (page - 1) * limit, limit)
     IN resp' = [Respond("getUserUploads", u, "OK") EXCEPT
                   !.roomId = roomId,
                   !.uploads = {uploads[x] : x \in shown}]
  /\ UNCHANGED <<projects, rooms, designs, uploads, nextDesignId,
                 nextUploadId, tasks, call, providerCalls,
                 aiHits, images>>

\* getUploadStats, lines 562-620: the rows the statistics are computed from
getUploadStats(u) ==
  /\ resp' = [Respond("getUploadStats", u, "OK") EXCEPT
                !.uploads = {uploads[x] :
                               x \in {y \in DOMAIN uploads :
                                        UploadOwner(y) = u}}]
  /\ UNCHANGED <<projects, rooms, designs, uploads, nextDesignId,
                 nextUploadId, tasks, call, providerCalls,
                 aiHits, images>>

\* ------------------------------------ specification of the resource calls
\* a finished generation of design d for room r, as the task's writes leave
\* the row: odd ids completed, even ids failed
SeedDesign(d, r) ==
  ApplyPatch(NewDesign(d, r, "draft", "replicate"),
             IF d % 2 = 1
             THEN CompletedPatch(CHOOSE res \in AiResults :
                                   Len(res.imageUrls) = 1, 7)
             ELSE FailedPatch(CHOOSE err \in Thrown : err.message = "boom",
                              7))

\* both users own a project with a room, every generation has finished
\* (design d was generated for room f[d]), and no call is in flight
SeededStore(f) ==
  /\ projects = [p \in ProjectIds |->
                   [userId |-> IF p = "pA" THEN "userA" ELSE "userB",
                    style |-> "SCANDINAVIAN"]]
  /\ rooms = [r \in RoomIds |->
                [projectId |-> IF r = "rA" THEN "pA" ELSE "pB",
                 type |-> "BEDROOM", originalImageUrl |-> NULL]]
  /\ designs = [d \in DesignIds |-> SeedDesign(d, f[d])]
  /\ uploads = [u \in {} |-> NULL]
  /\ nextDesignId = MaxDesigns + 1
  /\ nextUploadId = 1
  /\ tasks = [d \in DesignIds |-> Ended(NewTask(NoRoom, "draft", "replicate"))]
  /\ call = Idle
  /\ resp = NoResp
  /\ providerCalls = [d \in DesignIds |-> 1]
  /\ aiHits = 0
  /\ images = {}

\* the users generated designs in turn, each for their own room
InitAuth ==
  SeededStore([d \in DesignIds |-> IF d % 2 = 1 THEN "rA" ELSE "rB"])

\* list requests that filter by room at most and take the default page
DefaultQueries ==
  {q \in DesignQueries : /\ q.status = NULL /\ q.aiProvider = NULL
                         /\ q.page = 1 /\ q.limit = 20}

\* userA is the requester of the read calls; both users issue the calls
\* that change the store
NextAuth ==
  \/ \E q \in DefaultQueries : getDesigns("userA", q)
  \/ \E d \in DesignIds : getDesignById("userA", d)
  \/ \E r \in RoomIds : getRoomDesigns("userA", r)
  \/ getDesignStats("userA")
  \/ \E r \in RoomIds : getRoomById("userA", r)
  \/ \E p \in ProjectIds : getProjectById("userA", p)
  \/ \E u \in Users, r \in RoomIds \cup {NULL} : uploadRoomImage(u, r)
  \/ \E x \in UploadIds : getUploadById("userA", x)
  \/ \E u \in Users, x \in UploadIds : deleteUpload(u, x)
  \/ \E r \in RoomIds : getRoomUploads("userA", r)
  \/ \E u \in Users, x \in UploadIds, r \in RoomIds :
       updateUploadRoom(x, r, u)
  \/ \E r \in RoomIds \cup {NULL}, page \in Pages :
       getUserUploads("userA", r, page, 1)
  \/ getUploadStats("userA")
  \/ \E u \in Users, d \in DesignIds : deleteDesign(u, d)
  \/ \E u \in Users, r \in RoomIds : deleteRoom(u, r)

SpecAuth == InitAuth /\ [][NextAuth]_vars

\* --------------------------------------- specification of the design list
\* getDesigns under every query, over every assignment of the finished
\* designs to the two rooms, while owners delete designs and rooms
InitList == \E f \in [DesignIds -> RoomIds] : SeededStore(f)

NextList ==
  \/ \E u \in Users, q \in DesignQueries : getDesigns(u, q)
  \/ \E u \in Users, d \in DesignIds : deleteDesign(u, d)
  \/ \E u \in Users, r \in RoomIds : deleteRoom(u, r)

SpecList == InitList /\ [][NextList]_vars

\* ----------------------------------- RoomService / ProjectService (update)
\* the values an update request can carry
RoomTypes == {"BEDROOM", "KITCHEN"}
Styles == {"SCANDINAVIAN", "MODERN"}
ImageUrls == {"img"}

\* updateRoom, lines 812-898, with updateData {type}
updateRoom(u, r, type) ==
  /\ LET gate == RoomGate(u, r) IN
       /\ resp' = [Respond("updateRoom", u, gate) EXCEPT !.roomId = r]
       /\ rooms' = IF gate = "OK" THEN [rooms EXCEPT ![r].type = type]
                   ELSE rooms
  /\ UNCHANGED <<projects, designs, uploads, nextDesignId, nextUploadId,
                 tasks, call, providerCalls,
                 aiHits, images>>

\* updateRoomImage, lines 1131-1201
updateRoomImage(u, r, imageUrl) ==
  /\ LET gate == RoomGate(u, r) IN
       /\ resp' = [Respond("updateRoomImage", u, gate) EXCEPT !.roomId = r]
       /\ rooms' = IF gate = "OK"
                   THEN [rooms EXCEPT ![r].originalImageUrl = imageUrl]
                   ELSE rooms
  /\ UNCHANGED <<projects, designs, uploads, nextDesignId, nextUploadId,
                 tasks, call, providerCalls,
                 aiHits, images>>

\* updateProject with updateData {style}
updateProject(u, p, style) ==
  /\ LET gate == ProjectGate(u, p) IN
       /\ resp' = Respond("updateProject", u, gate)
       /\ projects' = IF gate = "OK"
                      THEN [projects EXCEPT ![p].style = style]
                      ELSE projects
  /\ UNCHANGED <<rooms, designs, uploads, nextDesignId, nextUploadId,
                 tasks, call, providerCalls,
                 aiHits, images>>

\* ON DELETE CASCADE of rooms_projectId_fkey
RoomsOfProjects(P) == {r \in DOMAIN rooms : rooms[r].projectId \in P}

\* deleteProject, lines 297-349: the delete cascades to the project's rooms
\* and to their designs, and detaches their uploads
deleteProject(u, p) ==
  /\ LET gate == ProjectGate(u, p) IN
       /\ resp' = Respond("deleteProject", u, gate)
       /\ IF gate = "OK"
          THEN /\ projects' = Remove(projects, {p})
               /\ rooms' = Remove(rooms, RoomsOfProjects({p}))
               /\ designs' = Remove(designs,
                                    DesignsOfRooms(RoomsOfProjects({p})))
               /\ uploads' = DetachUploads(RoomsOfProjects({p}))
          ELSE UNCHANGED <<projects, rooms, designs, uploads>>
  /\ UNCHANGED <<nextDesignId, nextUploadId, tasks, call, providerCalls,
                 aiHits, images>>

\* --------------------------------- specification of one more generation
\* userA's room holds finished designs and the store has one design id
\* left, so one generation runs, started by generateDesign or by
\* regenerateDesign with or without overrides, while userA edits the room
\* and the project
Seeded == 1..(MaxDesigns - 1)

InitJob ==
  /\ projects = [p \in ProjectIds |->
                   [userId |-> IF p = "pA" THEN "userA" ELSE "userB",
                    style |-> "SCANDINAVIAN"]]
  /\ rooms = [r \in {"rA"} |->
                [projectId |-> "pA", type |-> "BEDROOM",
                 originalImageUrl |-> NULL]]
  /\ designs = [d \in Seeded |-> SeedDesign(d, "rA")]
  /\ uploads = [u \in {} |-> NULL]
  /\ nextDesignId = MaxDesigns
  /\ nextUploadId = 1
  /\ tasks = [d \in Seeded |-> Ended(NewTask(NoRoom, "draft", "replicate"))]
  /\ call = Idle
  /\ resp = NoResp
  /\ providerCalls = [d \in DesignIds |-> IF d \in Seeded THEN 1 ELSE 0]
  /\ aiHits = 0
  /\ images = {}

NextJob ==
  \/ \E cp \in CustomPrompts, prov \in {NULL, "openai"} :
       generateDesign("userA", "rA", cp, prov)
  \/ \E d \in DesignIds, prov \in {NULL, "openai"}, cp \in {NULL, "fresh"} :
       regenerateDesign("userA", d, prov, cp)
  \/ GenerateDesignFindRoom
  \/ GenerateDesignCreate
  \/ GenerateDesignReturn
  \/ \E d \in DesignIds : TaskSetProcessing(d)
  \/ \E d \in DesignIds, res \in AiResults : ProviderResolves(d, res)
  \/ \E d \in DesignIds, err \in Thrown : ProviderRejects(d, err)
  \/ \E d \in DesignIds, e \in Elapsed : TaskWriteCompleted(d, e)
  \/ \E d \in DesignIds, e \in Elapsed : TaskWriteFailed(d, e)
  \/ \E d \in DesignIds : TaskDispatchCatch(d)
  \/ \E t \in RoomTypes : updateRoom("userA", "rA", t)
  \/ \E i \in ImageUrls : updateRoomImage("userA", "rA", i)
  \/ \E s \in Styles : updateProject("userA", "pA", s)

SpecJob == InitJob /\ [][NextJob]_vars

\* ------------------------------------- specification of the gated calls
\* both users call get, delete, regenerate and generate on userA's room and
\* its designs, on the room that does not exist and on design ids that name
\* no row, while one more generation can run
NextGate ==
  \/ \E u \in Users, d \in DesignIds : getDesignById(u, d)
  \/ \E u \in Users, d \in DesignIds : deleteDesign(u, d)
  \/ \E u \in Users, d \in DesignIds : regenerateDesign(u, d, NULL, NULL)
  \/ \E u \in Users, r \in RoomIds : generateDesign(u, r, "draft", NULL)
  \/ GenerateDesignFindRoom
  \/ GenerateDesignCreate
  \/ GenerateDesignReturn
  \/ \E d \in DesignIds : TaskSetProcessing(d)
  \/ \E d \in DesignIds, res \in AiResults : ProviderResolves(d, res)
  \/ \E d \in DesignIds, err \in Thrown : ProviderRejects(d, err)
  \/ \E d \in DesignIds, e \in Elapsed : TaskWriteCompleted(d, e)
  \/ \E d \in DesignIds, e \in Elapsed : TaskWriteFailed(d, e)
  \/ \E d \in DesignIds : TaskDispatchCatch(d)

SpecGate == InitJob /\ [][NextGate]_vars

\* ------------------------------------- specification of the deletions
\* both users own a project with a room; finished designs lie in the two
\* rooms in turn and the store has one design id left, so one generation,
\* started by generateDesign or regenerateDesign, runs while designs, rooms
\* and projects are deleted
InitCascade ==
  /\ projects = [p \in ProjectIds |->
                   [userId |-> IF p = "pA" THEN "userA" ELSE "userB",
                    style |-> "SCANDINAVIAN"]]
  /\ rooms = [r \in RoomIds |->
                [projectId |-> IF r = "rA" THEN "pA" ELSE "pB",
                 type |-> "BEDROOM", originalImageUrl |-> NULL]]
  /\ designs = [d \in Seeded |->
                  SeedDesign(d, IF d % 2 = 1 THEN "rA" ELSE "rB")]
  /\ uploads = [u \in {} |-> NULL]
  /\ nextDesignId = MaxDesigns
  /\ nextUploadId = 1
  /\ tasks = [d \in Seeded |-> Ended(NewTask(NoRoom, "draft", "replicate"))]
  /\ call = Idle
  /\ resp = NoResp
  /\ providerCalls = [d \in DesignIds |-> IF d \in Seeded THEN 1 ELSE 0]
  /\ aiHits = 0
  /\ images = {}

NextCascade ==
  \/ \E u \in Users, r \in RoomIds : generateDesign(u, r, "draft", NULL)
  \/ \E u \in Users, d \in DesignIds : regenerateDesign(u, d, NULL, NULL)
  \/ GenerateDesignFindRoom
  \/ GenerateDesignCreate
  \/ GenerateDesignReturn
  \/ \E d \in DesignIds : TaskSetProcessing(d)
  \/ \E d \in DesignIds, res \in AiResults : ProviderResolves(d, res)
  \/ \E d \in DesignIds, err \in Thrown : ProviderRejects(d, err)
  \/ \E d \in DesignIds, e \in Elapsed : TaskWriteCompleted(d, e)
  \/ \E d \in DesignIds, e \in Elapsed : TaskWriteFailed(d, e)
  \/ \E d \in DesignIds : TaskDispatchCatch(d)
  \/ \E u \in Users, d \in DesignIds : deleteDesign(u, d)
  \/ \E u \in Users, r \in RoomIds : deleteRoom(u, r)
  \/ \E u \in Users, p \in ProjectIds : deleteProject(u, p)

SpecCascade == InitCascade /\ [][NextCascade]_vars

\* ------------------------------------ specification of the driven job
\* the steps of a task whose update is applied by the store
StoredSetProcessing(d) ==
  TaskSetProcessing(d) /\ tasks'[d].pc = "awaitProvider"
StoredWriteCompleted(d, e) ==
  TaskWriteCompleted(d, e) /\ tasks'[d].pc = "done"
StoredWriteFailed(d, e) ==
  TaskWriteFailed(d, e) /\ tasks'[d].pc = "done"
\* the provider call of the task of design d returns
ProviderReturns(d) ==
  \/ \E res \in AiResults : ProviderResolves(d, res)
  \/ \E err \in Thrown : ProviderRejects(d, err)

\* userA starts generations for the room; no row is deleted and every
\* update is applied
NextDriven ==
  \/ generateDesign("userA", "rA", "draft", NULL)
  \/ GenerateDesignCreate
  \/ GenerateDesignReturn
  \/ \E d \in DesignIds : StoredSetProcessing(d)
  \/ \E d \in DesignIds : ProviderReturns(d)
  \/ \E d \in DesignIds, e \in Elapsed : StoredWriteCompleted(d, e)
  \/ \E d \in DesignIds, e \in Elapsed : StoredWriteFailed(d, e)

\* the event loop runs a continuation once the promise it awaits has
\* settled: the store answers every query, and the provider call returns
FairDriven ==
  /\ WF_vars(GenerateDesignCreate)
  /\ WF_vars(GenerateDesignReturn)
  /\ \A d \in DesignIds :
       /\ WF_vars(StoredSetProcessing(d))
       /\ WF_vars(ProviderReturns(d))
       /\ WF_vars(\E e \in Elapsed : StoredWriteCompleted(d, e))
       /\ WF_vars(\E e \in Elapsed : StoredWriteFailed(d, e))

SpecDriven == Init /\ [][NextDriven]_vars /\ FairDriven

\* ------------------------------------------------------- Express routing
\* the path parameters the routers declare
Params == {":id", ":roomId"}

\* a route pattern matches a path of as many segments when every segment
\* equals the pattern's or the pattern has a parameter there
Matches(pattern, path) ==
  /\ Len(pattern) = Len(path)
  /\ \A i \in 1..Len(pattern) :
       pattern[i] \in Params \/ pattern[i] = path[i]

\* the handler a router runs for a request: that of the first route, in
\* the order of registration, whose method and pattern match
Dispatch(routes, method, path) ==
  LET hits == {i \in 1..Len(routes) :
                 /\ routes[i].method = method
                 /\ Matches(routes[i].pattern, path)}
  IN IF hits = {} THEN "notFoundHandler"
     ELSE routes[CHOOSE i \in hits : \A j \in hits : i <= j].handler

\* the routes of the uploads router, in the order they are registered
uploadRoutes ==
  << [method |-> "POST", pattern |-> <<"room-image">>,
      handler |-> "uploadRoomImage"],
     [method |-> "GET", pattern |-> <<":id">>, handler |-> "getUpload"],
     [method |-> "DELETE", pattern |-> <<":id">>, handler |-> "deleteUpload"],
     [method |-> "GET", pattern |-> <<>>, handler |-> "getUserUploads"],
     [method |-> "GET", pattern |-> <<"room", ":roomId">>,
      handler |-> "getRoomUploads"],
     [method |-> "GET", pattern |-> <<"stats">>, handler |-> "getUploadStats"],
     [method |-> "POST", pattern |-> <<"signed-url">>,
      handler |-> "generateSignedUploadUrl"] >>

Methods == {"GET", "POST", "DELETE"}
\* the paths requested below /uploads; an upload id is written as text
UploadPaths ==
  {<<>>, <<"stats">>, <<"signed-url">>, <<"room-image">>}
    \cup {<<ToString(x)>> : x \in UploadIds}
    \cup {<<"room", r>> : r \in RoomIds}

\* the row findUnique({where: {id}}) finds for the text of a path segment:
\* 0 names no row
UploadIdOf(id) ==
  IF \E x \in DOMAIN uploads : ToString(x) = id
  THEN CHOOSE x \in DOMAIN uploads : ToString(x) = id
  ELSE 0

\* an authenticated request of user u to the uploads router: the handler
\* the router dispatches to runs with the parameters of the path
UploadsRequest(u, method, path) ==
  LET handler == Dispatch(uploadRoutes, method, path) IN
    CASE handler = "uploadRoomImage" ->
           \E r \in RoomIds \cup {NULL} : uploadRoomImage(u, r)
      [] handler = "getUpload" -> getUploadById(u, UploadIdOf(path[1]))
      [] handler = "deleteUpload" -> deleteUpload(u, UploadIdOf(path[1]))
      [] handler = "getUserUploads" -> getUserUploads(u, NULL, 1, 20)
      [] handler = "getRoomUploads" -> getRoomUploads(u, path[2])
      [] handler = "getUploadStats" -> getUploadStats(u)
      [] OTHER ->
           /\ resp' = Respond(handler, u,
                              IF handler = "notFoundHandler"
                              THEN "NOT_FOUND" ELSE "OK")
           /\ UNCHANGED <<projects, rooms, designs, uploads, nextDesignId,
                          nextUploadId, tasks, call, providerCalls, aiHits, images>>

\* both users send requests to the uploads router
NextUploads ==
  \E u \in Users, method \in Methods, path \in UploadPaths :
    UploadsRequest(u, method, path)

SpecUploads == InitAuth /\ [][NextUploads]_vars

\* ------------------------------------------------ designs router, app
\* the routes of the designs router, in the order they are registered
designRoutes ==
  << [method |-> "GET", pattern |-> <<>>, handler |-> "getDesigns"],
     [method |-> "POST", pattern |-> <<"generate">>,
      handler |-> "generateDesign"],
     [method |-> "GET", pattern |-> <<"stats">>, handler |-> "getDesignStats"],
     [method |-> "GET", pattern |-> <<"room", ":roomId">>,
      handler |-> "getRoomDesigns"],
     [method |-> "GET", pattern |-> <<":id">>, handler |-> "getDesign"],
     [method |-> "DELETE", pattern |-> <<":id">>, handler |-> "deleteDesign"],
     [method |-> "POST", pattern |-> <<":id", "regenerate">>,
      handler |-> "regenerateDesign"] >>

\* apiRouter.use(path, middleware) runs the middleware for every request
\* whose path begins with the segments of path
MountMatches(mount, path) ==
  /\ Len(path) >= Len(mount)
  /\ \A i \in 1..Len(mount) : path[i] = mount[i]

\* apiRouter.use("/designs/generate", aiLimiter)
AiLimiterMount == <<"designs", "generate">>

\* the row findUnique({where: {id}}) finds for the text of a path segment
DesignIdOf(id) ==
  IF \E d \in DOMAIN designs : ToString(d) = id
  THEN CHOOSE d \in DOMAIN designs : ToString(d) = id
  ELSE 0

\* the requests sent to the API below /designs
DesignRequests ==
  {[method |-> "POST", path |-> <<"designs", "generate">>]}
    \cup {[method |-> "POST",
           path |-> <<"designs", ToString(d), "regenerate">>] :
            d \in DesignIds}
    \cup {[method |-> m, path |-> <<"designs", ToString(d)>>] :
            m \in {"GET", "DELETE"}, d \in DesignIds}

\* a request of one client, authenticated as u, to the API: the AI limiter
\* counts it when it is mounted on the path and answers 429 once the window
\* is used up; otherwise the designs router dispatches to its handler
DesignsRequest(u, req) ==
  LET limited == MountMatches(AiLimiterMount, req.path)
      handler == Dispatch(designRoutes, req.method, Tail(req.path))
  IN IF limited /\ aiHits >= AiMaxRequests
     THEN /\ resp' = Respond("aiLimiter", u, "AI_RATE_LIMIT_EXCEEDED")
          /\ UNCHANGED <<projects, rooms, designs, uploads, nextDesignId,
                         nextUploadId, tasks, call, providerCalls, aiHits, images>>
     ELSE /\ aiHits' = IF limited THEN aiHits + 1 ELSE aiHits
          /\ CASE handler = "generateDesign" ->
                    \E r \in RoomIds :
                      generateDesignCall(u, r, "draft", NULL)
               [] handler = "regenerateDesign" ->
                    regenerateDesignCall(u, DesignIdOf(req.path[2]),
                                         NULL, NULL)
               [] handler = "getDesign" ->
                    getDesignById(u, DesignIdOf(req.path[2]))
               [] handler = "deleteDesign" ->
                    deleteDesign(u, DesignIdOf(req.path[2]))

\* userA's client sends requests while the generations it started run
NextDesigns ==
  \/ \E req \in DesignRequests : DesignsRequest("userA", req)
  \/ GenerateDesignFindRoom
  \/ GenerateDesignCreate
  \/ GenerateDesignReturn
  \/ \E d \in DesignIds : TaskSetProcessing(d)
  \/ \E d \in DesignIds, res \in AiResults : ProviderResolves(d, res)
  \/ \E d \in DesignIds, err \in Thrown : ProviderRejects(d, err)
  \/ \E d \in DesignIds, e \in Elapsed : TaskWriteCompleted(d, e)
  \/ \E d \in DesignIds, e \in Elapsed : TaskWriteFailed(d, e)
  \/ \E d \in DesignIds : TaskDispatchCatch(d)

SpecDesigns == Init /\ [][NextDesigns]_vars

\* ----------------------------------- specification of the upload store
\* both users upload images with and without a room, move uploads between
\* rooms, delete uploads and delete rooms
NextOrphans ==
  \/ \E u \in Users, r \in RoomIds \cup {NULL} : uploadRoomImage(u, r)
  \/ \E u \in Users, x \in UploadIds : deleteUpload(u, x)
  \/ \E u \in Users, x \in UploadIds, r \in RoomIds :
       updateUploadRoom(x, r, u)
  \/ \E u \in Users, r \in RoomIds : deleteRoom(u, r)

SpecOrphans == InitAuth /\ [][NextOrphans]_vars

\* ================================================================ claims
Terminal == {COMPLETED, FAILED}
\* the rows that exist before and after a step
Kept == DOMAIN designs \cap DOMAIN designs'

\* C1: terminal states are absorbing: a row whose status is COMPLETED or
\* FAILED keeps that status in every later step of any operation, for as
\* long as the row exists.
TerminalAbsorbing ==
  [][\A d \in Kept :
       designs[d].status \in Terminal
         => designs'[d].status = designs[d].status]_vars

\* C1 witness: regenerateDesign has created a sibling of a design that is in
\* a terminal state, and the sibling's task is running.
TerminalRegenerated ==
  /\ call.op = "regenerateDesign"
  /\ call.pc = "return"
  /\ call.orig \in DOMAIN designs
  /\ designs[call.orig].status \in Terminal
  /\ call.design.id \in DOMAIN tasks

\* C2: a row is created PENDING and its status only ever moves along
\* PENDING -> PROCESSING, PROCESSING -> COMPLETED, PROCESSING -> FAILED or
\* PENDING -> FAILED; in particular COMPLETED is entered from PROCESSING only.
StatusOrder ==
  [][/\ \A d \in DOMAIN designs' \ DOMAIN designs :
          designs'[d].status = PENDING
     /\ \A d \in Kept :
          designs'[d].status # designs[d].status
            => <<designs[d].status, designs'[d].status>> \in
                 { <<PENDING, PROCESSING>>, <<PROCESSING, COMPLETED>>,
                   <<PROCESSING, FAILED>>, <<PENDING, FAILED>> }]_vars

\* C2 witness: one design went PENDING -> PROCESSING -> COMPLETED and another
\* went PENDING -> FAILED without its provider ever being called.
BothPathsTaken ==
  /\ \E d \in DOMAIN designs : designs[d].status = COMPLETED
  /\ \E d \in DOMAIN designs :
       designs[d].status = FAILED /\ providerCalls[d] = 0

\* C3: a successful generateDesign hands its caller exactly one Design, with
\* status PENDING and an empty imageUrl, whatever the detached task has done
\* to the row in the meantime; and handing it over waits for nothing.
InitiationReturnsPending ==
  /\ (resp.op = "generateDesign" /\ resp.code = "OK")
       => /\ Cardinality(resp.designs) = 1
          /\ \A x \in resp.designs :
               x.status = PENDING /\ x.imageUrl = "" /\ x.roomId = resp.roomId
  /\ call.pc = "return" => ENABLED GenerateDesignReturn

\* C3 witness: the caller receives PENDING while the stored row is already
\* COMPLETED.
ReturnedPendingWhileCompleted ==
  /\ resp.op = "generateDesign"
  /\ resp.code = "OK"
  /\ \E x \in resp.designs :
       x.id \in DOMAIN designs /\ designs[x.id].status = COMPLETED

\* C4: generateDesign by a user who does not own the room's project answers
\* ACCESS_DENIED, on a room that does not exist it answers ROOM_NOT_FOUND, and
\* the step that answers either creates no row, spawns no task and calls no
\* provider.
EntryGate ==
  [][resp'.op = "generateDesign" =>
       /\ (resp'.roomId \in DOMAIN rooms /\ RoomOwner(resp'.roomId) # resp'.userId)
            => resp'.code = "ACCESS_DENIED"
       /\ (call.pc = "idle" /\ resp'.roomId \notin DOMAIN rooms)
            => resp'.code = "ROOM_NOT_FOUND"
       /\ resp'.code \in {"ACCESS_DENIED", "ROOM_NOT_FOUND"}
            => /\ designs' = designs
               /\ tasks' = tasks
               /\ providerCalls' = providerCalls
               /\ nextDesignId' = nextDesignId
               /\ call'.pc = "idle"]_vars

\* C4 witness: userB was refused on userA's room while userA has designs.
DeniedOnForeignRoom ==
  /\ resp.op = "generateDesign"
  /\ resp.code = "ACCESS_DENIED"
  /\ resp.userId = "userB"
  /\ resp.roomId = "rA"
  /\ DOMAIN designs # {}

\* C5: under SpecAuth no read call (get by id, list, per-room list,
\* statistics) returns a design, room, project or upload whose ownership
\* chain resolves to a user other than the requester.
ReadOps ==
  {"getDesigns", "getDesignById", "getRoomDesigns", "getDesignStats",
   "getRoomById", "getProjectById", "getUploadById", "getRoomUploads",
   "getUserUploads", "getUploadStats"}
ReadsOnlyOwnResources ==
  resp.op \in ReadOps =>
    /\ \A d \in resp.designs : RoomOwner(d.roomId) = resp.userId
    /\ \A r \in resp.rooms : projects[r.projectId].userId = resp.userId
    /\ \A p \in resp.projects : p.userId = resp.userId
    /\ \A x \in resp.uploads :
         x.roomId # NULL => RoomOwner(x.roomId) = resp.userId

\* C6: under SpecAuth every step that removes a design, room or upload,
\* creates an upload or changes the room of an upload is taken by the
\* owner: the removed resource, the room the upload is put under and the
\* room it is taken from all resolve to the requester.
MutationsOnlyOnOwnResources ==
  [][LET u == resp'.userId IN
       /\ \A d \in DOMAIN designs \ DOMAIN designs' : DesignOwner(d) = u
       /\ \A d \in Kept : designs'[d] # designs[d] => DesignOwner(d) = u
       /\ \A r \in DOMAIN rooms \ DOMAIN rooms' : RoomOwner(r) = u
       /\ \A x \in DOMAIN uploads \ DOMAIN uploads' : UploadOwner(x) = u
       /\ \A x \in DOMAIN uploads' :
            (x \notin DOMAIN uploads \/ uploads'[x] # uploads[x]) =>
              /\ uploads'[x].roomId # NULL =>
                    RoomOwner(uploads'[x].roomId) = u
              /\ (x \in DOMAIN uploads /\ uploads[x].roomId # NULL) =>
                    UploadOwner(x) = u]_vars

\* C7: under SpecList every design getDesigns returns is a stored design of
\* a room of the requester, whatever the filters, page and limit; when the
\* roomId filter names a room of another user the result is empty.
ListDesignsOwnOnly ==
  resp.op = "getDesigns" =>
    /\ \A d \in resp.designs :
         d.id \in DOMAIN designs /\ DesignOwner(d.id) = resp.userId
    /\ (/\ resp.roomId \in DOMAIN rooms
        /\ RoomOwner(resp.roomId) # resp.userId) => resp.designs = {}

\* userA lists with the roomId filter naming userB's room, which holds a
\* design, and gets nothing
ListedForeignRoomEmpty ==
  /\ resp.op = "getDesigns"
  /\ resp.userId = "userA"
  /\ resp.roomId = "rB"
  /\ "rB" \in DOMAIN rooms
  /\ DesignsOfRooms({"rB"}) # {}
  /\ resp.designs = {}

\* C8: a row becomes COMPLETED only by the update that follows the provider's
\* answer, from PROCESSING, and then holds the first returned URL, the
\* provider's prompt, the provider's metadata with allImageUrls set to the
\* whole list, and a processing time.
SuccessPath ==
  [][\A d \in Kept :
       (designs'[d].status = COMPLETED /\ designs[d].status # COMPLETED)
         => /\ tasks[d].pc = "writeCompleted"
            /\ designs[d].status = PROCESSING
            /\ LET r == tasks[d].aiResult
                   n == designs'[d] IN
                 /\ n.imageUrl = Head(r.imageUrls)
                 /\ n.prompt = r.prompt
                 /\ DOMAIN n.metadata = DOMAIN r.metadata \cup {"allImageUrls"}
                 /\ n.metadata["allImageUrls"] = r.imageUrls
                 /\ \A k \in DOMAIN r.metadata \ {"allImageUrls"} :
                      n.metadata[k] = r.metadata[k]
                 /\ n.processingTime # NullTime
                 /\ n.error = NULL]_vars

\* C8 witness: a COMPLETED design created with the prompt "draft" holds the
\* provider's prompt and both URLs.
CompletedWithTwoImages ==
  \E d \in DOMAIN designs :
    /\ designs[d].status = COMPLETED
    /\ designs[d].prompt = "p"
    /\ designs[d].imageUrl = "u1"
    /\ designs[d].metadata["allImageUrls"] = <<"u1", "u2">>

TerminalHasProcessingTime ==
  \A d \in DOMAIN designs :
    designs[d].status \in Terminal => designs[d].processingTime # NullTime

\* C11: an error raised in the detached task is never delivered to the
\* caller and never escapes unhandled: no task ends in an unhandled
\* rejection; the call that created the row answers OK with the PENDING
\* row whatever has happened to the task meanwhile; and a call that answers
\* with an error has changed no row and no task.
GenerationOps == {"generateDesign", "regenerateDesign"}
TaskErrorsContained ==
  [][/\ \A d \in DOMAIN tasks' : tasks'[d].pc # "unhandled"
     /\ (call.pc = "return" /\ call'.pc = "idle") =>
          /\ resp'.code = "OK"
          /\ \A x \in resp'.designs : x.status = PENDING /\ x.error = NULL
     /\ (resp'.op \in GenerationOps /\ resp'.code # "OK") =>
          designs' = designs /\ tasks' = tasks]_vars

\* the caller is answered OK although the task has already failed twice and
\* the .catch handler has recorded FAILED (a FAILED row without a time)
AnsweredOkAfterTaskFailed ==
  /\ resp.op \in GenerationOps
  /\ resp.code = "OK"
  /\ \E x \in resp.designs :
       /\ x.id \in DOMAIN designs
       /\ designs[x.id].status = FAILED
       /\ designs[x.id].processingTime = NullTime
       /\ tasks[x.id].pc = "done"

\* C12 as stated: when the FAILED update of the catch block is rejected
\* after a provider failure and the row is still PROCESSING, the task is
\* over: no further write to the row is attempted.
DoubleFailureEndsTask ==
  [][\A d \in DOMAIN tasks \cap DOMAIN designs' :
       (/\ tasks[d].pc = "writeFailed"
        /\ tasks[d].error \in Thrown
        /\ tasks'[d].pc # "writeFailed"
        /\ designs'[d].status = PROCESSING) => tasks'[d].pc = "done"]_vars

\* C12 amended: the rejected FAILED update of the catch block is followed
\* by one more FAILED update, issued by the .catch handler of
\* generateDesign. When that update is rejected too the task is over and
\* the row is left as it was; a task that is over never writes again, so a
\* row left in PROCESSING stays in PROCESSING until it is deleted.
StuckAfterDispatchWriteFails ==
  [][\A d \in DOMAIN tasks \cap Kept :
       /\ (/\ tasks[d].pc = "dispatchCatch"
           /\ designs'[d].status # FAILED) =>
             (tasks[d]' = tasks[d] \/
              (tasks'[d].pc = "done" /\ designs'[d] = designs[d]))
       /\ tasks[d].pc = "done" =>
             (tasks'[d].pc = "done" /\ designs'[d] = designs[d])]_vars

\* a task is over and its row is still PROCESSING
StuckInProcessing ==
  \E d \in DOMAIN tasks \cap DOMAIN designs :
    tasks[d].pc = "done" /\ designs[d].status = PROCESSING

\* C13: the run is started once per created Design and never retried: every
\* stored Design has its one task, the provider has been invoked at most
\* once for any Design id, and it has been invoked exactly once for a task
\* that has passed its PROCESSING update, also after later failures.
ProviderCalledAtMostOnce ==
  /\ DOMAIN designs \subseteq DOMAIN tasks
  /\ DOMAIN tasks = 1..(nextDesignId - 1)
  /\ \A d \in DesignIds : providerCalls[d] <= 1
  /\ \A d \in DOMAIN tasks :
       /\ tasks[d].pc = "setProcessing" => providerCalls[d] = 0
       /\ tasks[d].pc \in {"awaitProvider", "writeCompleted"} =>
            providerCalls[d] = 1

\* the provider was called once, it or the COMPLETED update failed, the
\* FAILED update of the catch block failed as well, and the .catch handler
\* recorded FAILED: the task is over after that single call
FailedAfterOneProviderCall ==
  \E d \in DOMAIN designs :
    /\ providerCalls[d] = 1
    /\ tasks[d].pc = "done"
    /\ designs[d].status = FAILED
    /\ designs[d].processingTime = NullTime

\* C14: no step of a regenerateDesign call changes or removes a stored
\* Design row, the original included; the row the call inserts has an id no
\* stored row has, differs from the original's id, and carries the roomId
\* of the original.
RegenerateLeavesOriginal ==
  [][(call' # call /\ "regenerateDesign" \in {call.op, call'.op}) =>
       /\ \A d \in DOMAIN designs :
            d \in DOMAIN designs' /\ designs'[d] = designs[d]
       /\ \A d \in DOMAIN designs' \ DOMAIN designs :
            /\ d # call.orig
            /\ designs'[d].id = d
            /\ designs'[d].roomId = call.roomId
            /\ call.orig \in DOMAIN designs =>
                 designs'[d].roomId = designs[call.orig].roomId]_vars

\* the owner has regenerated a COMPLETED design: the call answered with a
\* second row for the same room and the original is still COMPLETED
RegeneratedBesideOriginal ==
  /\ resp.op = "regenerateDesign"
  /\ resp.code = "OK"
  /\ \E x \in resp.designs, o \in DOMAIN designs :
       /\ o # x.id
       /\ x.id \in DOMAIN designs
       /\ designs[o].roomId = x.roomId
       /\ designs[o].status = COMPLETED
       /\ designs[o].prompt = x.prompt

\* C15: regenerateDesign enters generateDesign with the room id of the
\* original, with the provider override or else the original's provider,
\* and with the prompt override or else the custom prompt the request that
\* created the original carried (an absent prompt and an empty one are the
\* same request).
RegenerateUsesOriginalRequest ==
  [][(call.pc = "idle" /\ call'.pc = "findRoom") =>
       LET o == call'.orig IN
         /\ call'.roomId = designs[o].roomId
         /\ call'.aiProvider =
              Or(call'.options.aiProvider, designs[o].aiProvider)
         /\ Or(call'.customPrompt, "") =
              Or(Or(call'.options.customPrompt, tasks[o].customPrompt),
                 "")]_vars

\* C16 as stated: every row the job inserts is PENDING with an empty
\* imageUrl and an empty prompt.
CreatedWithEmptyPrompt ==
  [][\A d \in DOMAIN designs' \ DOMAIN designs :
       /\ designs'[d].status = PENDING
       /\ designs'[d].imageUrl = ""
       /\ designs'[d].prompt = ""]_vars

\* C16 amended: every row the job inserts is PENDING with an empty imageUrl;
\* its prompt is the custom prompt of the request, and empty only when the
\* request carries none.
CreatedWithRequestPrompt ==
  [][\A d \in DOMAIN designs' \ DOMAIN designs :
       /\ designs'[d].status = PENDING
       /\ designs'[d].imageUrl = ""
       /\ designs'[d].prompt = Or(call.customPrompt, "")
       /\ Truthy(call.customPrompt) => designs'[d].prompt # ""]_vars

\* a request with a custom prompt has just been accepted: its row is
\* PENDING, without an image, and holds the caller's prompt
CreatedHoldingDraft ==
  /\ call.pc = "return"
  /\ call.op = "generateDesign"
  /\ call.customPrompt = "draft"
  /\ call.design.id \in DOMAIN designs
  /\ designs[call.design.id].status = PENDING
  /\ designs[call.design.id].imageUrl = ""
  /\ designs[call.design.id].prompt = "draft"

\* C17: a step that changes a stored Design row d is a step of the task of
\* d and of nothing else: no request is in progress in that step, no other
\* task moves and no other row changes; a task comes into being only
\* together with its row, in the step of the call that inserts the row.
SingleWriter ==
  [][/\ \A d \in Kept :
          designs'[d] # designs[d] =>
            /\ d \in DOMAIN tasks /\ tasks'[d] # tasks[d]
            /\ \A x \in DOMAIN tasks \ {d} : tasks'[x] = tasks[x]
            /\ \A x \in Kept \ {d} : designs'[x] = designs[x]
            /\ call' = call
            /\ resp' = NoResp
     /\ DOMAIN tasks' \ DOMAIN tasks = DOMAIN designs' \ DOMAIN designs
     /\ \A d \in DOMAIN tasks' \ DOMAIN tasks :
          call.pc = "create" /\ call'.design.id = d]_vars

\* two tasks are under way at once, each having written its own row
TwoTasksWriting ==
  \E d1, d2 \in DOMAIN designs :
    /\ d1 # d2
    /\ tasks[d1].pc = "awaitProvider" /\ designs[d1].status = PROCESSING
    /\ tasks[d2].pc = "writeFailed" /\ designs[d2].status = PROCESSING

\* C18: the room generateDesign read, with its project's style, is what the
\* task is spawned with, what the task keeps until the provider is called,
\* and what the prompt data and the source image of that call are built
\* from, whatever is written to the room and the project meanwhile.
SnapshotUsed ==
  [][/\ (call.pc # "create" /\ call'.pc = "create") =>
          call'.room = RoomWithProject(call'.roomId)
     /\ \A d \in DOMAIN tasks' \ DOMAIN tasks : tasks'[d].room = call.room
     /\ \A d \in DOMAIN tasks :
          tasks[d].pc = "setProcessing" =>
            \/ tasks'[d] = tasks[d]
            \/ tasks'[d].pc = "writeFailed"
            \/ /\ tasks'[d].pc = "awaitProvider"
               /\ tasks'[d].promptData.roomType = tasks[d].room.type
               /\ tasks'[d].promptData.style = tasks[d].room.project.style
               /\ tasks'[d].promptData.inputImageUrl =
                    tasks[d].room.originalImageUrl
               /\ tasks'[d].promptData.customPrompt =
                    tasks[d].customPrompt]_vars

\* the provider has been called with the room as it was read, although
\* type, image and style have all been changed since
CalledWithStaleRoom ==
  \E d \in DOMAIN tasks :
    /\ tasks[d].pc = "awaitProvider"
    /\ tasks[d].promptData.roomType = "BEDROOM"
    /\ rooms["rA"].type = "KITCHEN"
    /\ tasks[d].promptData.inputImageUrl = NULL
    /\ rooms["rA"].originalImageUrl = "img"
    /\ tasks[d].promptData.style = "SCANDINAVIAN"
    /\ projects["pA"].style = "MODERN"

\* C19: a step of generateDesign, of regenerateDesign or of a task leaves
\* every Room and Project row as it is.
JobLeavesRoomsAndProjects ==
  [][(call' # call \/ tasks' # tasks) =>
       (rooms' = rooms /\ projects' = projects)]_vars

\* a generation has run into the failure handlers and ended while the room
\* and the project hold what their owner last wrote
JobEndedBesideEditedRoom ==
  /\ MaxDesigns \in DOMAIN designs
  /\ tasks[MaxDesigns].pc = "done"
  /\ designs[MaxDesigns].status = FAILED
  /\ rooms["rA"] = [projectId |-> "pA", type |-> "KITCHEN",
                     originalImageUrl |-> "img"]
  /\ projects["pA"].style = "MODERN"

\* C20: a Design that is not FAILED has no error, and a FAILED Design has a
\* non-empty error string.
ErrorIffFailed ==
  \A d \in DOMAIN designs :
    /\ designs[d].status # FAILED => designs[d].error = NULL
    /\ designs[d].status = FAILED => designs[d].error \notin {NULL, ""}

\* C21: a Design that is not COMPLETED has an empty imageUrl, and a Design
\* that is PENDING or PROCESSING has a null processingTime.
ImageAndTimeOnlyWhenDue ==
  \A d \in DOMAIN designs :
    /\ designs[d].status # COMPLETED => designs[d].imageUrl = ""
    /\ designs[d].status \in {PENDING, PROCESSING}
         => designs[d].processingTime = NullTime

\* C21 witness: a design whose provider call is in flight stands beside one
\* that failed with its elapsed time recorded and no image.
ProcessingBesideFailed ==
  /\ \E d \in DOMAIN designs :
       /\ designs[d].status = PROCESSING
       /\ tasks[d].pc = "awaitProvider"
  /\ \E d \in DOMAIN designs :
       /\ designs[d].status = FAILED
       /\ designs[d].processingTime # NullTime
       /\ designs[d].imageUrl = ""

\* C22: get, delete and regenerate of a Design, and initiate on a Room,
\* answer not-found when the target does not exist and access-denied when it
\* exists but resolves to another user; in both cases no row is created,
\* changed or deleted. A call passes the gate only on the requester's own
\* existing target.
GateOutcomesDistinguished ==
  [][/\ (\/ resp'.op \in {"getDesignById", "deleteDesign"}
         \/ resp'.op = "regenerateDesign" /\ resp'.designId # 0)
        => /\ resp'.designId \notin DOMAIN designs
                => /\ resp'.code = "DESIGN_NOT_FOUND"
                   /\ UNCHANGED <<projects, rooms, designs, uploads, tasks>>
           /\ (/\ resp'.designId \in DOMAIN designs
               /\ DesignOwner(resp'.designId) # resp'.userId)
                => /\ resp'.code = "ACCESS_DENIED"
                   /\ UNCHANGED <<projects, rooms, designs, uploads, tasks>>
           /\ (/\ resp'.designId \in DOMAIN designs
               /\ DesignOwner(resp'.designId) = resp'.userId)
                => resp'.code = "OK"
     /\ (call.pc = "idle" /\ call'.pc = "findRoom")
        => /\ call'.orig \in DOMAIN designs
           /\ DesignOwner(call'.orig) = call'.userId
     /\ (call.pc = "idle" /\ resp'.op = "generateDesign")
        => /\ resp'.roomId \notin DOMAIN rooms
                => /\ resp'.code = "ROOM_NOT_FOUND"
                   /\ UNCHANGED <<projects, rooms, designs, uploads, tasks>>
           /\ resp'.roomId \in DOMAIN rooms
                => /\ RoomOwner(resp'.roomId) # resp'.userId
                   /\ resp'.code = "ACCESS_DENIED"
                   /\ UNCHANGED <<projects, rooms, designs, uploads, tasks>>
     /\ (call.pc = "idle" /\ call'.pc = "create")
        => /\ call'.roomId \in DOMAIN rooms
           /\ RoomOwner(call'.roomId) = call'.userId]_vars

\* C22 witness: userB asked to regenerate a design of userA that exists and
\* was refused.
RegenerateDeniedOnForeignDesign ==
  /\ resp.op = "regenerateDesign"
  /\ resp.code = "ACCESS_DENIED"
  /\ resp.designId \in DOMAIN designs
  /\ DesignOwner(resp.designId) # resp.userId

\* C23: every Design row belongs to an existing Room: deleting a Room or its
\* Project removes the Room's Designs in the same step, and an insert that
\* races with the deletion of its Room leaves no row behind.
DesignsBelongToRooms ==
  /\ \A d \in DOMAIN designs : designs[d].roomId \in DOMAIN rooms
  /\ \A r \in DOMAIN rooms : rooms[r].projectId \in DOMAIN projects

\* C23 witness: the room was deleted between the ownership check and the
\* insert of a generateDesign call, the insert was rejected, and the designs
\* the room held are gone with it.
InsertLostRaceWithDeleteRoom ==
  /\ resp.op = "generateDesign"
  /\ resp.code = "DESIGN_GENERATION_ERROR"
  /\ resp.roomId \notin DOMAIN rooms
  /\ \E d \in DOMAIN tasks : d \notin DOMAIN designs

\* C24: when no row is deleted, the provider call returns and the updates
\* are applied, every initiated Design eventually is COMPLETED or FAILED;
\* once the provider has resolved with a result, the Design eventually is,
\* and stays, COMPLETED with imageUrl equal to the first URL of the result.
DrivenJobTerminates ==
  /\ \A d \in DesignIds :
       (d \in DOMAIN designs)
         ~> (d \in DOMAIN designs /\ designs[d].status \in Terminal)
  /\ \A d \in DesignIds, res \in AiResults :
       (d \in DOMAIN tasks /\ tasks[d].aiResult = res)
         ~> [](/\ d \in DOMAIN designs
               /\ designs[d].status = COMPLETED
               /\ designs[d].imageUrl = res.imageUrls[1])

\* C24 witness: a task driven with a result of one image URL has ended and
\* its Design is COMPLETED with that URL.
DrivenToCompletedWithOneImage ==
  \E d \in DOMAIN designs :
    /\ tasks[d].pc = "done"
    /\ designs[d].status = COMPLETED
    /\ designs[d].metadata["allImageUrls"] = <<designs[d].imageUrl>>

\* C25: there is no timeout or cancellation: while the provider call of a
\* Design is in flight the row, if it exists, is PROCESSING, no step of any
\* operation changes it except by deleting it, and nothing but the return of
\* the provider call takes the task further.
NoTimeoutOrCancellation ==
  [][\A d \in DOMAIN tasks :
       tasks[d].pc = "awaitProvider"
         => /\ d \in DOMAIN designs => designs[d].status = PROCESSING
            /\ d \in Kept => designs'[d] = designs[d]
            /\ tasks'[d].pc # "awaitProvider" => ProviderReturns(d)]_vars

\* C25 witness: a Design is still PROCESSING with its provider call in
\* flight although a generation started after it has already ended.
ProcessingOutlivedLaterJob ==
  \E d \in DOMAIN designs, n \in DOMAIN tasks :
    /\ tasks[d].pc = "awaitProvider"
    /\ designs[d].status = PROCESSING
    /\ n > d
    /\ tasks[n].pc = "done"

\* C26: an authenticated GET /uploads/stats request is dispatched to the
\* upload-statistics handler and answered with the statistics of the
\* requester's uploads.
StatsRouteReachesStatsHandler ==
  [][\A u \in Users :
       UploadsRequest(u, "GET", <<"stats">>)
         => /\ resp'.op = "getUploadStats"
            /\ resp'.code = "OK"
            /\ resp'.uploads = {uploads[x] :
                                  x \in {y \in DOMAIN uploads :
                                           UploadOwner(y) = u}}]_vars

\* C27: every request that starts an AI generation is counted by the AI
\* limiter, so within one window a client has not started more generations
\* than the limiter counted, and the limiter admits at most aiMaxRequests.
AiLimitCoversGeneration ==
  /\ nextDesignId - 1 <= aiHits
  /\ aiHits <= AiMaxRequests

\* C28: the provider is called only in the step in which the PROCESSING
\* update of the Design is applied; when that update is rejected the task
\* goes to its FAILED update without a provider call; and while a provider
\* call is in flight for a Design that exists, the Design is PROCESSING.
ProviderOnlyAfterProcessing ==
  [][\A d \in DOMAIN tasks :
       /\ providerCalls'[d] # providerCalls[d]
            => /\ tasks[d].pc = "setProcessing"
               /\ d \in Kept
               /\ designs[d].status = PENDING
               /\ designs'[d].status = PROCESSING
       /\ (/\ tasks[d].pc = "setProcessing"
           /\ tasks'[d].pc # "setProcessing"
           /\ ~(d \in Kept /\ designs'[d].status = PROCESSING))
            => /\ tasks'[d].pc = "writeFailed"
               /\ providerCalls'[d] = providerCalls[d]
               /\ designs' = designs
       /\ (tasks'[d].pc = "awaitProvider" /\ d \in DOMAIN designs')
            => designs'[d].status = PROCESSING]_vars

\* C28 witness: the PROCESSING update of a Design that exists was rejected
\* by the store, and the Design is FAILED without its provider ever having
\* been called.
FailedWithoutProviderCall ==
  \E d \in DOMAIN designs :
    /\ designs[d].status = FAILED
    /\ tasks[d].pc = "done"
    /\ providerCalls[d] = 0

\* C29: a Design deleted while its task runs stays deleted: no step brings
\* back a row whose id was handed out, a step of the task of a deleted
\* Design changes no row, such a task can always take its next step unless
\* it waits for the provider, and no task ends in an unhandled rejection.
DeletedStaysDeleted ==
  [][/\ \A d \in DesignIds :
          (d < nextDesignId /\ d \notin DOMAIN designs)
            => d \notin DOMAIN designs'
     /\ \A d \in DOMAIN tasks \ DOMAIN designs :
          /\ tasks'[d] # tasks[d] => designs' = designs
          /\ tasks[d].pc \notin {"done", "awaitProvider"}
               => ENABLED (\/ TaskSetProcessing(d)
                           \/ \E e \in Elapsed : TaskWriteCompleted(d, e)
                           \/ \E e \in Elapsed : TaskWriteFailed(d, e)
                           \/ TaskDispatchCatch(d))
     /\ \A d \in DOMAIN tasks' : tasks'[d].pc # "unhandled"]_vars

\* C29 witness: the row was deleted while its task ran, the task's FAILED
\* update was rejected for the missing row, and the handler attached by
\* generateDesign is about to run.
TaskOutlivedItsDesign ==
  \E d \in DOMAIN tasks :
    /\ d \notin DOMAIN designs
    /\ tasks[d].pc = "dispatchCatch"
    /\ tasks[d].error = RecordNotFound

====
